---- MODULE Spec2Model ----
(***************************************************************************)
(* Model of the puzzle uniqueness validator (src/puzzle-validator.js).     *)
(*                                                                         *)
(* Strings are modelled as TLA+ strings over a small alphabet that has     *)
(* upper- and lower-case forms, so that String.prototype.toLowerCase is a  *)
(* real conversion.  A JavaScript Set is modelled as the sequence of its   *)
(* elements in insertion order without repetitions, an array as a          *)
(* sequence, and a template-literal message as the record of the values    *)
(* it interpolates.                                                        *)
(***************************************************************************)
EXTENDS Integers, Sequences, FiniteSets, TLC

VARIABLES
    newPuzzle,             \* the candidate puzzle handed to the validator
    existingPuzzles,       \* the corpus (data.puzzles), in its given order
    call,                  \* the operation applied, with its other arguments
    uniquenessValidation,  \* what validatePuzzleUniqueness returned
    exactDuplicate,        \* what checkForExactDuplicate returned
    duplicateWords,        \* what checkForDuplicateWords returned
    duplicateGroups,       \* what checkForDuplicateGroups returned
    similarExplanations,   \* what checkForSimilarExplanations returned
    stats,                 \* what getWordUsageStats returned
    flags,                 \* main: the command-line flags
    firestore,             \* main: whether initFirebase gives a database
    datesToGenerate,       \* main: the dates of this run
    dateIndex,             \* main: position of the for loop in datesToGenerate
    attempts,              \* main: attempts made for the current date
    success,               \* main: whether the current date is done
    failedDates,           \* main: the dates given up
    saved,                 \* the calls of savePuzzle so far, with what led to each
    pc,                    \* main: "idle" (not started), "main" or "done"
    exitCode,              \* main: the exit code of the process
    game                   \* the page: the variables of script.js, the analytics
                           \* data in localStorage, the callbacks not yet run

inputs == <<newPuzzle, existingPuzzles>>
generator == <<flags, firestore, datesToGenerate, dateIndex, attempts, success,
               failedDates, saved, pc, exitCode>>
vars == <<newPuzzle, existingPuzzles, call, uniquenessValidation, exactDuplicate,
          duplicateWords, duplicateGroups, similarExplanations, stats, generator, game>>

----------------------------------------------------------------------------
(* Bounds of the model *)

\* the corpus holds at most MaxCorpus puzzles
MaxCorpus == 2

\* minGroupOverlap ranges over 0 .. MaxMinOverlap
MaxMinOverlap == 4

\* main makes at most MaxRetry attempts for a date (--retry=N)
MaxRetry == 2

\* number of words in a group (validatePuzzle: group.words.length !== 4)
GroupSize == 4

----------------------------------------------------------------------------
(* Strings *)

Dates == {"2025-01-01", "2025-01-02", "2025-01-03"}

Words == {"a", "A", "b", "c", "d"}

Explanations == {"x", "X", "y"}

\* the order in which a group lists its words
WordRank == ("a" :> 1) @@ ("b" :> 2) @@ ("c" :> 3) @@ ("d" :> 4) @@ ("A" :> 5)

UpperToLower == ("A" :> "a") @@ ("B" :> "b") @@ ("C" :> "c") @@ ("X" :> "x") @@ ("Y" :> "y")

toLowerCase(s) == IF s \in DOMAIN UpperToLower THEN UpperToLower[s] ELSE s

----------------------------------------------------------------------------
(* Arrays and Sets *)

Range(s) == {s[i] : i \in 1..Len(s)}

\* Array.prototype.map
Map(s, F(_)) == IF s = <<>> THEN <<>> ELSE [i \in 1..Len(s) |-> F(s[i])]

\* Set.prototype.has on the insertion-ordered sequence of a Set
Has(set, x) == \E i \in 1..Len(set) : set[i] = x

\* Set.prototype.add
Add(set, x) == IF Has(set, x) THEN set ELSE Append(set, x)

\* new Set(array)
RECURSIVE NewSet(_)
NewSet(s) == IF s = <<>> THEN <<>> ELSE Add(NewSet(SubSeq(s, 1, Len(s) - 1)), s[Len(s)])

\* concatenation of a sequence of sequences (Array.prototype.flat)
RECURSIVE Flatten(_)
Flatten(ss) == IF ss = <<>> THEN <<>> ELSE Head(ss) \o Flatten(Tail(ss))

\* Array.prototype.filter
Filter(s, T(_)) == SelectSeq(s, T)

\* new Set(words.map(w => w.toLowerCase()))
LowerWords(ws) == NewSet(Map(ws, toLowerCase))

----------------------------------------------------------------------------
(* puzzle-validator.js *)

\* wordsByDate[puzzle.date] = ...: an object keeps its keys in the order of
\* their first assignment, and a second assignment to a key replaces the value
SetKey(obj, key, val) ==
    IF \E i \in 1..Len(obj) : obj[i].key = key
    THEN [i \in 1..Len(obj) |-> IF obj[i].key = key THEN [key |-> key, val |-> val] ELSE obj[i]]
    ELSE Append(obj, [key |-> key, val |-> val])

RECURSIVE WordsByDate(_)
WordsByDate(puzzles) ==
    IF puzzles = <<>> THEN <<>>
    ELSE LET p == puzzles[Len(puzzles)]
         IN  SetKey(WordsByDate(SubSeq(puzzles, 1, Len(puzzles) - 1)), p.date, NewSet(p.words))

getAllUsedWords(puzzles) ==
    [usedWords   |-> NewSet(Flatten(Map(puzzles, LAMBDA p : Map(p.words, toLowerCase)))),
     wordsByDate |-> WordsByDate(puzzles)]

\* a plausible slip: the explanations are collected as they are written
getAllUsedExplanationsAsWritten(puzzles) ==
    NewSet(Flatten(Map(puzzles, LAMBDA p : Map(p.groups, LAMBDA g : g.explanation))))

getAllUsedExplanations(puzzles) ==
    NewSet(Flatten(Map(puzzles, LAMBDA p : Map(p.groups, LAMBDA g : toLowerCase(g.explanation)))))

\* a plausible slip: the dates are looked up ignoring the letter case
FoundInIgnoringCase(wordsByDate, word) ==
    Map(Filter(wordsByDate, LAMBDA e : Has(Map(e.val, toLowerCase), toLowerCase(word))),
        LAMBDA e : e.key)

\* Object.entries(wordsByDate).filter(([date, words]) => words.has(word)).map(([date]) => date)
FoundIn(wordsByDate, word) ==
    Map(Filter(wordsByDate, LAMBDA e : Has(e.val, word)), LAMBDA e : e.key)

checkForDuplicateWords(np, puzzles) ==
    LET used == getAllUsedWords(puzzles)
        entry(word) ==
            IF Has(used.usedWords, toLowerCase(word))
            THEN <<[word |-> word, usedIn |-> FoundIn(used.wordsByDate, word)]>>
            ELSE <<>>
    IN  Flatten(Map(np.words, entry))

\* the previousGroups array built by checkForDuplicateGroups
PreviousGroups(puzzles) ==
    Flatten(Map(puzzles, LAMBDA p :
        Map(p.groups, LAMBDA g :
            [date |-> p.date, explanation |-> g.explanation, words |-> LowerWords(g.words)])))

\* a plausible slip: the threshold itself does not count
ExceedsThreshold(overlap, minOverlap) == Len(overlap) > minOverlap

\* if (overlap.length >= minOverlap)
ReachesThreshold(overlap, minOverlap) == Len(overlap) >= minOverlap

\* [...newGroupWords].filter(word => prevGroup.words.has(word))
Overlap(newGroupWords, prevGroup) == Filter(newGroupWords, LAMBDA w : Has(prevGroup.words, w))

\* the record pushed to duplicateGroups
OverlapRecord(groupIndex, newGroup, prevGroup, overlap) ==
    [groupIndex          |-> groupIndex,
     newGroupExplanation |-> newGroup.explanation,
     newGroupWords       |-> newGroup.words,
     previousDate        |-> prevGroup.date,
     previousExplanation |-> prevGroup.explanation,
     overlappingWords    |-> overlap,
     overlapCount        |-> Len(overlap)]

\* a plausible slip: the loop over the previous groups stops at the first hit
GroupRecordsFirstOnly(groupIndex, newGroup, previousGroups, minOverlap) ==
    LET newGroupWords == LowerWords(newGroup.words)
        record(prevGroup) ==
            LET overlap == Overlap(newGroupWords, prevGroup)
            IN  IF ReachesThreshold(overlap, minOverlap)
                THEN <<OverlapRecord(groupIndex, newGroup, prevGroup, overlap)>>
                ELSE <<>>
        all == Flatten(Map(previousGroups, record))
    IN  IF all = <<>> THEN <<>> ELSE <<all[1]>>

\* the body of newPuzzle.groups.forEach: the records of one candidate group
GroupRecords(groupIndex, newGroup, previousGroups, minOverlap) ==
    LET newGroupWords == LowerWords(newGroup.words)
        record(prevGroup) ==
            LET overlap == Overlap(newGroupWords, prevGroup)
            IN  IF ReachesThreshold(overlap, minOverlap)
                THEN <<OverlapRecord(groupIndex, newGroup, prevGroup, overlap)>>
                ELSE <<>>
    IN  Flatten(Map(previousGroups, record))

checkForDuplicateGroups(np, puzzles, minOverlap) ==
    LET previousGroups == PreviousGroups(puzzles)
        indices == [i \in 1..Len(np.groups) |-> i - 1]
    IN  Flatten(Map(indices, LAMBDA groupIndex :
                    GroupRecords(groupIndex, np.groups[groupIndex + 1], previousGroups,
                                 minOverlap)))

checkForSimilarExplanations(np, puzzles) ==
    LET usedExplanations == getAllUsedExplanations(puzzles)
    IN  Map(Filter(np.groups, LAMBDA g : Has(usedExplanations, toLowerCase(g.explanation))),
            LAMBDA g : g.explanation)

\* a plausible slip: only the word sets are compared, not the dates
IsExactDuplicateWordsOnly(puzzle, np) ==
    LET existingWords == LowerWords(puzzle.words)
        newWords == LowerWords(np.words)
    IN  /\ Len(existingWords) = Len(newWords)
        /\ \A i \in 1..Len(newWords) : Has(existingWords, newWords[i])

\* a plausible slip: the words are compared in the order they are listed
IsExactDuplicateOrdered(puzzle, np) ==
    \/ puzzle.date = np.date
    \/ LowerWords(puzzle.words) = LowerWords(np.words)

\* the predicate handed to existingPuzzles.find
IsExactDuplicate(puzzle, np) ==
    \/ puzzle.date = np.date
    \/ LET existingWords == LowerWords(puzzle.words)
           newWords == LowerWords(np.words)
       IN  /\ Len(existingWords) = Len(newWords)
           /\ \A i \in 1..Len(newWords) : Has(existingWords, newWords[i])

\* a plausible slip: the last element that passes is returned, not the first
FindLastExactDuplicate(np, puzzles, i) ==
    LET hits == {j \in i..Len(puzzles) : IsExactDuplicate(puzzles[j], np)}
    IN  IF hits = {} THEN <<>>
        ELSE <<puzzles[CHOOSE j \in hits : \A k \in hits : k <= j]>>

\* Array.prototype.find scanning from index i: <<the first element that
\* passes>>, or <<>> for undefined
RECURSIVE FindExactDuplicate(_, _, _)
FindExactDuplicate(np, puzzles, i) ==
    IF i > Len(puzzles) THEN <<>>
    ELSE IF IsExactDuplicate(puzzles[i], np) THEN <<puzzles[i]>>
    ELSE FindExactDuplicate(np, puzzles, i + 1)

checkForExactDuplicate(np, puzzles) == FindExactDuplicate(np, puzzles, 1)

\* the number of elements of a list equal to x
RECURSIVE Occurrences(_, _)
Occurrences(list, x) ==
    IF list = <<>> THEN 0
    ELSE (IF Head(list) = x THEN 1 ELSE 0) + Occurrences(Tail(list), x)

\* Object.entries(wordCount): one [word, count] pair per key, the keys in the
\* order of their first assignment (no word of the model is an integer key)
WordCountEntries(puzzles) ==
    LET lowered == Flatten(Map(puzzles, LAMBDA p : Map(p.words, toLowerCase)))
    IN  Map(NewSet(lowered), LAMBDA word : <<word, Occurrences(lowered, word)>>)

\* a plausible slip: the entries are left in the order of the keys
Unsorted(entries) == entries

\* entries.sort((a, b) => b[1] - a[1]): descending by count, and stable, an
\* entry goes behind the entries before it whose count is not smaller
RECURSIVE SortByCount(_)
SortByCount(entries) ==
    IF entries = <<>> THEN <<>>
    ELSE LET e == entries[Len(entries)]
             front == SortByCount(SubSeq(entries, 1, Len(entries) - 1))
             ahead == Cardinality({i \in 1..Len(front) : front[i][2] >= e[2]})
         IN  SubSeq(front, 1, ahead) \o <<e>> \o SubSeq(front, ahead + 1, Len(front))

\* array.slice(0, n)
Slice(array, n) == SubSeq(array, 1, IF Len(array) < n THEN Len(array) ELSE n)

\* number of entries kept by reusedWords.slice(0, 10)
TopLimit == 10

\* the 16 of (totalPuzzles * 16) / totalPuzzles
WordsPerPuzzle == 16

getWordUsageStats(puzzles) ==
    LET wordCount == WordCountEntries(puzzles)
        totalPuzzles == Len(puzzles)
        reusedWords == SortByCount(Filter(wordCount, LAMBDA e : e[2] > 1))
    IN  [totalWords            |-> Len(wordCount),
         totalPuzzles          |-> totalPuzzles,
         reusedWords           |-> Slice(reusedWords, TopLimit),
         averageWordsPerPuzzle |-> IF totalPuzzles > 0
                                   THEN (totalPuzzles * WordsPerPuzzle) \div totalPuzzles
                                   ELSE 0]

\* the earlier default: individual word reuse rejects
StrictByDefault == FALSE

\* a plausible slip: a repeated explanation rejects by default
SimilarExplanationsRejectedByDefault == FALSE

\* defaults of the options of validatePuzzleUniqueness
DefaultAllowWordReuse == TRUE
DefaultAllowSimilarExplanations == TRUE
DefaultMinGroupOverlap == 3
DefaultVerbose == TRUE

\* number of word-reuse detail lines shown by duplicateWords.slice(0, 5)
DetailLimit == 5

\* const results = { valid: true, warnings: [], errors: [], info: [] }
NewResults == [valid |-> TRUE, warnings |-> <<>>, errors |-> <<>>, info |-> <<>>]

\* const { allowWordReuse = true, ... } = options
Option(options, name, default) == IF name \in DOMAIN options THEN options[name] ELSE default

\* a plausible slip: the early return leaves valid untouched
ExactDuplicateResultStillValid(found) ==
    [valid    |-> TRUE,
     warnings |-> <<>>,
     errors   |-> <<[kind |-> "ExactDuplicate", date |-> found[1].date]>>,
     info     |-> <<>>]

\* step 1 of validatePuzzleUniqueness: the early return on an exact duplicate
ExactDuplicateResult(found) ==
    [valid    |-> FALSE,
     warnings |-> <<>>,
     errors   |-> <<[kind |-> "ExactDuplicate", date |-> found[1].date]>>,
     info     |-> <<>>]

\* a plausible slip: the positive note is added whatever the check found
GroupStepAlwaysNotes(results, dupGroups) ==
    [results EXCEPT
        !.valid = IF Len(dupGroups) > 0 THEN FALSE ELSE @,
        !.errors = @ \o Map(dupGroups, LAMBDA d :
            [kind                |-> "GroupOverlap",
             newGroupExplanation |-> d.newGroupExplanation,
             overlapCount        |-> d.overlapCount,
             previousExplanation |-> d.previousExplanation,
             previousDate        |-> d.previousDate,
             overlappingWords    |-> d.overlappingWords]),
        !.info = Append(@, [kind |-> "GroupsUnique"])]

\* step 2: results after the duplicate-groups check
GroupStep(results, dupGroups) ==
    IF Len(dupGroups) > 0
    THEN [results EXCEPT
            !.valid = FALSE,
            !.errors = @ \o Map(dupGroups, LAMBDA d :
                [kind                |-> "GroupOverlap",
                 newGroupExplanation |-> d.newGroupExplanation,
                 overlapCount        |-> d.overlapCount,
                 previousExplanation |-> d.previousExplanation,
                 previousDate        |-> d.previousDate,
                 overlappingWords    |-> d.overlappingWords])]
    ELSE [results EXCEPT !.info = Append(@, [kind |-> "GroupsUnique"])]

\* a plausible slip: allowWordReuse is not consulted, reuse only ever warns
WordStepNeverStrict(results, dupWords, allowWordReuse, verbose) ==
    IF Len(dupWords) > 0
    THEN [results EXCEPT
            !.warnings = Append(@, [kind |-> "WordsReused", count |-> Len(dupWords)])]
    ELSE [results EXCEPT !.info = Append(@, [kind |-> "NoDuplicateWords"])]

\* a plausible slip: the detail lines are added whatever verbose says
WordStepAlwaysVerbose(results, dupWords, allowWordReuse, verbose) ==
    IF Len(dupWords) > 0
    THEN IF ~allowWordReuse
         THEN [results EXCEPT
                 !.valid = FALSE,
                 !.errors = @ \o Map(dupWords, LAMBDA d :
                     [kind |-> "WordUsed", word |-> d.word, usedIn |-> d.usedIn])]
         ELSE LET summary == <<[kind |-> "WordsReused", count |-> Len(dupWords)]>>
                  shown == SubSeq(dupWords, 1,
                                  IF Len(dupWords) < DetailLimit
                                  THEN Len(dupWords) ELSE DetailLimit)
                  details == Map(shown, LAMBDA d :
                                 [kind |-> "WordDetail", word |-> d.word, usedIn |-> d.usedIn])
                  more == IF Len(dupWords) > DetailLimit
                          THEN <<[kind |-> "MoreWords",
                                  count |-> Len(dupWords) - DetailLimit]>>
                          ELSE <<>>
              IN  [results EXCEPT !.warnings = @ \o summary \o details \o more]
    ELSE [results EXCEPT !.info = Append(@, [kind |-> "NoDuplicateWords"])]

\* step 3: results after the individual-words check
WordStep(results, dupWords, allowWordReuse, verbose) ==
    IF Len(dupWords) > 0
    THEN IF ~allowWordReuse
         THEN [results EXCEPT
                 !.valid = FALSE,
                 !.errors = @ \o Map(dupWords, LAMBDA d :
                     [kind |-> "WordUsed", word |-> d.word, usedIn |-> d.usedIn])]
         ELSE LET summary == <<[kind |-> "WordsReused", count |-> Len(dupWords)]>>
                  shown == SubSeq(dupWords, 1,
                                  IF Len(dupWords) < DetailLimit
                                  THEN Len(dupWords) ELSE DetailLimit)
                  details == Map(shown, LAMBDA d :
                                 [kind |-> "WordDetail", word |-> d.word, usedIn |-> d.usedIn])
                  more == IF Len(dupWords) > DetailLimit
                          THEN <<[kind |-> "MoreWords",
                                  count |-> Len(dupWords) - DetailLimit]>>
                          ELSE <<>>
              IN  [results EXCEPT
                     !.warnings = @ \o summary \o (IF verbose THEN details \o more ELSE <<>>)]
    ELSE [results EXCEPT !.info = Append(@, [kind |-> "NoDuplicateWords"])]

\* a plausible slip: one rejection reason stands for all the matches
ExplanationStepOneReason(results, similar, allowSimilarExplanations) ==
    IF Len(similar) > 0
    THEN IF ~allowSimilarExplanations
         THEN [results EXCEPT
                 !.valid = FALSE,
                 !.errors = Append(@, [kind |-> "ExplanationUsed", explanation |-> similar[1]])]
         ELSE [results EXCEPT
                 !.warnings = Append(@, [kind |-> "SimilarExplanations",
                                         count |-> Len(similar)])]
    ELSE [results EXCEPT !.info = Append(@, [kind |-> "ExplanationsUnique"])]

\* step 4: results after the explanations check
ExplanationStep(results, similar, allowSimilarExplanations) ==
    IF Len(similar) > 0
    THEN IF ~allowSimilarExplanations
         THEN [results EXCEPT
                 !.valid = FALSE,
                 !.errors = @ \o Map(similar, LAMBDA e :
                     [kind |-> "ExplanationUsed", explanation |-> e])]
         ELSE [results EXCEPT
                 !.warnings = Append(@, [kind |-> "SimilarExplanations",
                                         count |-> Len(similar)])]
    ELSE [results EXCEPT !.info = Append(@, [kind |-> "ExplanationsUnique"])]

\* a plausible slip: the words are checked before the groups
validateWordsFirst(np, puzzles, options) ==
    LET allowWordReuse == Option(options, "allowWordReuse", DefaultAllowWordReuse)
        allowSimilarExplanations ==
            Option(options, "allowSimilarExplanations", DefaultAllowSimilarExplanations)
        minGroupOverlap == Option(options, "minGroupOverlap", DefaultMinGroupOverlap)
        verbose == Option(options, "verbose", DefaultVerbose)
        found == checkForExactDuplicate(np, puzzles)
    IN  IF found # <<>>
        THEN ExactDuplicateResult(found)
        ELSE ExplanationStep(
                 GroupStep(
                     WordStep(NewResults, checkForDuplicateWords(np, puzzles),
                              allowWordReuse, verbose),
                     checkForDuplicateGroups(np, puzzles, minGroupOverlap)),
                 checkForSimilarExplanations(np, puzzles), allowSimilarExplanations)

validatePuzzleUniqueness(np, puzzles, options) ==
    LET allowWordReuse == Option(options, "allowWordReuse", DefaultAllowWordReuse)
        allowSimilarExplanations ==
            Option(options, "allowSimilarExplanations", DefaultAllowSimilarExplanations)
        minGroupOverlap == Option(options, "minGroupOverlap", DefaultMinGroupOverlap)
        verbose == Option(options, "verbose", DefaultVerbose)
        found == checkForExactDuplicate(np, puzzles)
    IN  IF found # <<>>
        THEN ExactDuplicateResult(found)
        ELSE ExplanationStep(
                 WordStep(
                     GroupStep(NewResults, checkForDuplicateGroups(np, puzzles, minGroupOverlap)),
                     checkForDuplicateWords(np, puzzles), allowWordReuse, verbose),
                 checkForSimilarExplanations(np, puzzles), allowSimilarExplanations)

----------------------------------------------------------------------------
(* The inputs *)

\* the word lists of length n, each listing distinct words in WordRank order
WordLists(n) ==
    {ws \in [1..n -> Words] : \A i \in 1..n - 1 : WordRank[ws[i]] < WordRank[ws[i + 1]]}

GroupSet == [words : WordLists(GroupSize), explanation : Explanations]

\* a puzzle that passes validatePuzzle, scaled down to one group: its words
\* are the words of its groups and no word is listed twice
PuzzleOf(date, groups) ==
    [date |-> date, words |-> Flatten(Map(groups, LAMBDA g : g.words)), groups |-> groups]

PuzzleSet == {PuzzleOf(d, <<g>>) : d \in Dates, g \in GroupSet}

\* loadPuzzles: the corpus holds the puzzles of the n most recent days, one
\* puzzle per date, latest first (orderBy('date', 'desc'))
DateOfDay == <<"2025-01-01", "2025-01-02", "2025-01-03">>

CorpusSet ==
    {c \in UNION {[1..n -> PuzzleSet] : n \in 0..MaxCorpus} :
        \A i \in 1..Len(c) : c[i].date = DateOfDay[Len(c) + 1 - i]}

\* longer word lists, for what only shows with many words: two lists that
\* share all but one word, one that holds a word in both cases, and one that
\* shares few words with the others
WideWordLists ==
    {<<"a", "b", "c", "d", "e", "f", "g", "h", "i", "j", "k", "l">>,
     <<"b", "c", "d", "e", "f", "g", "h", "i", "j", "k", "l", "A">>,
     <<"a", "c", "d", "e", "f", "g", "h", "i", "j", "k", "l", "A">>,
     <<"i", "j", "k", "l", "m", "n", "o", "p", "q", "r", "s", "t">>}

WideExplanationLists == {<<"x", "X", "y">>, <<"X", "X", "X">>}

\* the groups of a word list: every GroupSize words in a row form a group
GroupsOf(ws, explanations) ==
    [k \in 1..(Len(ws) \div GroupSize) |->
        [words       |-> SubSeq(ws, GroupSize * (k - 1) + 1, GroupSize * k),
         explanation |-> explanations[k]]]

WidePuzzleSet ==
    {PuzzleOf(d, GroupsOf(ws, e)) : d \in Dates, ws \in WideWordLists, e \in WideExplanationLists}

WideCorpusSet ==
    {c \in UNION {[1..n -> WidePuzzleSet] : n \in 0..MaxCorpus} :
        \A i \in 1..Len(c) : c[i].date = DateOfDay[Len(c) + 1 - i]}

OptionSet ==
    {<<>>}
    \cup [allowWordReuse : BOOLEAN, verbose : {TRUE}]
    \cup [allowWordReuse : BOOLEAN, allowSimilarExplanations : BOOLEAN,
          minGroupOverlap : 0..MaxMinOverlap, verbose : BOOLEAN]

----------------------------------------------------------------------------
(* The state machine: the exported functions applied to a candidate and a corpus *)

NoCall == [op |-> "none"]

\* the flags of a run: retry is what parseInt(...) || 5 leaves, a positive
\* number of attempts
FlagSet == [preview : BOOLEAN, force : BOOLEAN, stats : BOOLEAN, strict : BOOLEAN,
            retry : 1..MaxRetry]

\* analytics.init: the data a first visit puts in localStorage
NewData ==
    [gamesPlayed |-> 0, gamesWon |-> 0, currentStreak |-> 0, maxStreak |-> 0,
     lastPlayedDate |-> "", history |-> {}, totalMistakes |-> 0, perfectGames |-> 0]

\* what is kept about the calls made, to state the claims: the endGame call
\* of the last step, the value of mistakesCount at the markMistake call of the
\* last step, the endGame calls of the game on the grid, and per day the
\* calls of recordGameEnd and of updateGlobalStats with saveUserGameResult
NoCalls ==
    [lastEnd |-> [origin |-> "none", practice |-> FALSE, counted |-> FALSE],
     markMistakeAt |-> -1,
     endGameCalls |-> 0,
     recorded |-> [day \in 1..Len(DateOfDay) |-> 0],
     sent |-> [day \in 1..Len(DateOfDay) |-> 0]]

\* the variables of script.js as they are declared, before loadTodaysPuzzle
NoGame ==
    [puzzle            |-> [date |-> "", source |-> "none", words |-> {}, groups |-> <<>>],
     grid              |-> {},
     selectedItems     |-> <<>>,
     mistakesCount     |-> 0,
     gameActive        |-> FALSE,
     isPracticeMode    |-> FALSE,
     currentPuzzleDate |-> "",
     allPuzzles        |-> {},
     previousGuesses   |-> {},
     nickname          |-> FALSE,
     data              |-> NewData,
     pending           |-> <<>>,
     today             |-> 1,
     calls             |-> NoCalls]

\* main is not running: the validator is called on its own
Idle ==
    /\ flags = [preview |-> FALSE, force |-> FALSE, stats |-> FALSE, strict |-> FALSE,
                retry |-> 1]
    /\ firestore = FALSE
    /\ datesToGenerate = <<>>
    /\ dateIndex = 1
    /\ attempts = 0
    /\ success = FALSE
    /\ failedDates = <<>>
    /\ saved = <<>>
    /\ pc = "idle"
    /\ exitCode = 0
    /\ game = NoGame

\* what the result variables hold while no call is open
NoResults ==
    /\ uniquenessValidation = NewResults
    /\ exactDuplicate = <<>>
    /\ duplicateWords = <<>>
    /\ duplicateGroups = <<>>
    /\ similarExplanations = <<>>
    /\ stats = getWordUsageStats(<<>>)

Init ==
    /\ newPuzzle \in PuzzleSet
    /\ existingPuzzles \in CorpusSet
    /\ call = NoCall
    /\ NoResults
    /\ Idle

CallValidatePuzzleUniqueness ==
    /\ call = NoCall
    /\ \E options \in OptionSet :
        /\ call' = [op |-> "validatePuzzleUniqueness", options |-> options]
        /\ uniquenessValidation' = validatePuzzleUniqueness(newPuzzle, existingPuzzles, options)
    /\ UNCHANGED <<inputs, generator, game, exactDuplicate, duplicateWords, duplicateGroups,
                   similarExplanations, stats>>

CallCheckForExactDuplicate ==
    /\ call = NoCall
    /\ call' = [op |-> "checkForExactDuplicate"]
    /\ exactDuplicate' = checkForExactDuplicate(newPuzzle, existingPuzzles)
    /\ UNCHANGED <<inputs, generator, game, uniquenessValidation, duplicateWords, duplicateGroups,
                   similarExplanations, stats>>

CallCheckForDuplicateWords ==
    /\ call = NoCall
    /\ call' = [op |-> "checkForDuplicateWords"]
    /\ duplicateWords' = checkForDuplicateWords(newPuzzle, existingPuzzles)
    /\ UNCHANGED <<inputs, generator, game, uniquenessValidation, exactDuplicate, duplicateGroups,
                   similarExplanations, stats>>

CallCheckForDuplicateGroups ==
    /\ call = NoCall
    /\ \E minOverlap \in 0..MaxMinOverlap :
        /\ call' = [op |-> "checkForDuplicateGroups", minOverlap |-> minOverlap]
        /\ duplicateGroups' = checkForDuplicateGroups(newPuzzle, existingPuzzles, minOverlap)
    /\ UNCHANGED <<inputs, generator, game, uniquenessValidation, exactDuplicate, duplicateWords,
                   similarExplanations, stats>>

CallCheckForSimilarExplanations ==
    /\ call = NoCall
    /\ call' = [op |-> "checkForSimilarExplanations"]
    /\ similarExplanations' = checkForSimilarExplanations(newPuzzle, existingPuzzles)
    /\ UNCHANGED <<inputs, generator, game, uniquenessValidation, exactDuplicate, duplicateWords,
                   duplicateGroups, stats>>

\* a plausible slip: the words are lower-cased in the corpus itself
CallGetWordUsageStatsLoweringInPlace ==
    /\ call = NoCall
    /\ call' = [op |-> "getWordUsageStats"]
    /\ stats' = getWordUsageStats(existingPuzzles)
    /\ existingPuzzles' =
          Map(existingPuzzles, LAMBDA p : [p EXCEPT !.words = Map(@, toLowerCase)])
    /\ UNCHANGED <<newPuzzle, generator, game, uniquenessValidation, exactDuplicate,
                   duplicateWords, duplicateGroups, similarExplanations>>

CallGetWordUsageStats ==
    /\ call = NoCall
    /\ call' = [op |-> "getWordUsageStats"]
    /\ stats' = getWordUsageStats(existingPuzzles)
    /\ UNCHANGED <<inputs, generator, game, uniquenessValidation, exactDuplicate, duplicateWords,
                   duplicateGroups, similarExplanations>>

\* the caller takes the result and is free to call again
Return ==
    /\ call # NoCall
    /\ call' = NoCall
    /\ uniquenessValidation' = NewResults
    /\ exactDuplicate' = <<>>
    /\ duplicateWords' = <<>>
    /\ duplicateGroups' = <<>>
    /\ similarExplanations' = <<>>
    /\ stats' = getWordUsageStats(<<>>)
    /\ UNCHANGED <<inputs, generator, game>>

Next ==
    \/ CallValidatePuzzleUniqueness
    \/ CallCheckForExactDuplicate
    \/ CallCheckForDuplicateWords
    \/ CallCheckForDuplicateGroups
    \/ CallCheckForSimilarExplanations
    \/ CallGetWordUsageStats
    \/ Return

Spec == Init /\ [][Next]_vars

\* the same functions applied to puzzles of several groups
InitWide ==
    /\ newPuzzle \in WidePuzzleSet
    /\ existingPuzzles \in WideCorpusSet
    /\ call = NoCall
    /\ NoResults
    /\ Idle

SpecWide == InitWide /\ [][Next]_vars

----------------------------------------------------------------------------
(* The generator: main of generate-puzzle-gemini.js, one attempt per step *)

COLORS == <<"#f44336", "#4caf50", "#9c27b0", "#2196f3">>

\* puzzle.words.length !== 16 and puzzle.groups.length !== 4
PuzzleWordCount == 16
PuzzleGroupCount == 4

\* Array.prototype.includes
Includes(array, x) == \E i \in 1..Len(array) : array[i] = x

\* validatePuzzle: the issues of the group at index i
GroupIssues(puzzle, i) ==
    LET group == puzzle.groups[i]
    IN  (IF Len(group.words) # GroupSize
         THEN <<[kind |-> "GroupSize", group |-> i]>> ELSE <<>>)
        \o (IF group.explanation = ""
            THEN <<[kind |-> "MissingExplanation", group |-> i]>> ELSE <<>>)
        \o (IF group.color = ""
            THEN <<[kind |-> "MissingColor", group |-> i]>> ELSE <<>>)
        \o Map(Filter(group.words, LAMBDA word : ~Includes(puzzle.words, word)),
               LAMBDA word : [kind |-> "NotInWords", group |-> i, word |-> word])

validatePuzzle(puzzle) ==
    LET groupWords == Flatten(Map(puzzle.groups, LAMBDA g : g.words))
        missingWords == Filter(puzzle.words, LAMBDA w : ~Includes(groupWords, w))
        extraWords == Filter(groupWords, LAMBDA w : ~Includes(puzzle.words, w))
        indices == [i \in 1..Len(puzzle.groups) |-> i]
        issues ==
            (IF puzzle.date = "" THEN <<[kind |-> "MissingDate"]>> ELSE <<>>)
            \o (IF Len(puzzle.words) # PuzzleWordCount
                THEN <<[kind |-> "WordCount", found |-> Len(puzzle.words)]>> ELSE <<>>)
            \o (IF Len(NewSet(puzzle.words)) # PuzzleWordCount
                THEN <<[kind |-> "DuplicateWords"]>> ELSE <<>>)
            \o (IF Len(puzzle.groups) # PuzzleGroupCount
                THEN <<[kind |-> "GroupCount", found |-> Len(puzzle.groups)]>> ELSE <<>>)
            \o Flatten(Map(indices, LAMBDA i : GroupIssues(puzzle, i)))
            \o (IF Len(missingWords) > 0
                THEN <<[kind |-> "WordsInNoGroup", words |-> missingWords]>> ELSE <<>>)
            \o (IF Len(extraWords) > 0
                THEN <<[kind |-> "WordsNotInMain", words |-> extraWords]>> ELSE <<>>)
    IN  [valid |-> Len(issues) = 0, issues |-> issues]

\* displayValidationResults: prints the buckets and returns results.valid
displayValidationResults(results) == results.valid

\* what generatePuzzleWithGemini can return for a date: three puzzles of
\* sound structure (the second repeats three groups of the first, the third
\* spreads words of both over new groups), one of 15 words, and one that
\* lists a word twice
Alphabet ==
    <<"a", "b", "c", "d", "e", "f", "g", "h", "i", "j",
      "k", "l", "m", "n", "o", "p", "q", "r", "s", "t">>

GeneratedWordLists ==
    {SubSeq(Alphabet, 1, 16),
     SubSeq(Alphabet, 5, 20),
     <<"a", "e", "i", "q", "b", "f", "j", "r", "c", "g", "k", "s", "d", "h", "l", "t">>,
     SubSeq(Alphabet, 1, 15),
     SubSeq(Alphabet, 1, 15) \o <<"a">>}

GeneratedExplanations == <<"x", "X", "y", "z">>

\* the puzzle built from the model's answer: the date is set, and the groups
\* get their colors by position
GeneratedPuzzle(date, ws) ==
    [date   |-> date,
     words  |-> ws,
     groups |-> [k \in 1..(Len(ws) \div GroupSize) |->
                    [words       |-> SubSeq(ws, GroupSize * (k - 1) + 1, GroupSize * k),
                     explanation |-> GeneratedExplanations[k],
                     color       |-> COLORS[k]]]]

GeneratedSet(date) == {GeneratedPuzzle(date, ws) : ws \in GeneratedWordLists}

\* the value of puzzle while no puzzle has been generated
NoPuzzle == [date |-> "", words |-> <<>>, groups |-> <<>>]

\* position of a date in the calendar
DateRank(date) == CHOOSE i \in 1..Len(DateOfDay) : DateOfDay[i] = date

\* data.puzzles.sort((a, b) => new Date(a.date) - new Date(b.date)): ascending
\* by date, and stable
RECURSIVE SortByDate(_)
SortByDate(puzzles) ==
    IF puzzles = <<>> THEN <<>>
    ELSE LET p == puzzles[Len(puzzles)]
             front == SortByDate(SubSeq(puzzles, 1, Len(puzzles) - 1))
             ahead == Cardinality({i \in 1..Len(front) :
                                      DateRank(front[i].date) <= DateRank(p.date)})
         IN  SubSeq(front, 1, ahead) \o <<p>> \o SubSeq(front, ahead + 1, Len(front))

\* data.puzzles after savePuzzle: the puzzle replaces the one of its date or is
\* pushed; the fallback to the local file (savePuzzleToJSON) also sorts by date
savePuzzle(puzzle, puzzles, path) ==
    LET existing == {i \in 1..Len(puzzles) : puzzles[i].date = puzzle.date}
        existingIndex == IF existing = {} THEN 0
                         ELSE CHOOSE i \in existing : \A j \in existing : i <= j
        updated == IF existingIndex > 0
                   THEN [puzzles EXCEPT ![existingIndex] = puzzle]
                   ELSE Append(puzzles, puzzle)
    IN  IF path = "json" THEN SortByDate(updated) ELSE updated

\* the ways savePuzzle can take: Firestore, or the local file when there is
\* no database or its write fails
SavePaths == IF firestore THEN {"firestore", "json"} ELSE {"json"}

\* a plausible slip: everything generated is saved
ShouldSaveAlways(isUnique, f) == TRUE

\* a plausible slip: --force is not consulted
ShouldSaveIgnoringForce(isUnique, f) == isUnique

\* if (isUnique || flags.force)
ShouldSave(isUnique, f) == isUnique \/ f.force

\* the corpus as loadPuzzles finds it
LoadedSet ==
    {<<>>,
     <<GeneratedPuzzle("2025-01-01", SubSeq(Alphabet, 1, 16))>>,
     <<GeneratedPuzzle("2025-01-02", SubSeq(Alphabet, 1, 16))>>,
     <<GeneratedPuzzle("2025-01-02", SubSeq(Alphabet, 5, 20)),
       GeneratedPuzzle("2025-01-01", SubSeq(Alphabet, 1, 16))>>}

DatesToGenerateSet == {<<"2025-01-02">>, <<"2025-01-02", "2025-01-03">>}

InitMain ==
    /\ flags \in FlagSet
    /\ firestore \in BOOLEAN
    /\ datesToGenerate \in DatesToGenerateSet
    /\ existingPuzzles \in LoadedSet
    /\ newPuzzle = NoPuzzle
    /\ call = NoCall
    /\ NoResults
    /\ dateIndex = 1
    /\ attempts = 0
    /\ success = FALSE
    /\ failedDates = <<>>
    /\ saved = <<>>
    /\ pc = "main"
    /\ exitCode = 0
    /\ game = NoGame

validatorResults == <<call, exactDuplicate, duplicateWords, duplicateGroups,
                      similarExplanations>>

\* if (flags.stats): the statistics are shown and main returns
ShowStats ==
    /\ pc = "main"
    /\ flags.stats
    /\ stats' = getWordUsageStats(existingPuzzles)
    /\ pc' = "done"
    /\ UNCHANGED <<inputs, validatorResults, uniquenessValidation, flags, firestore,
                   datesToGenerate, dateIndex, attempts, success, failedDates, saved,
                   exitCode, game>>

\* a plausible slip: the loop does not stop at the first success
InLoopIgnoringSuccess ==
    /\ pc = "main"
    /\ ~flags.stats
    /\ dateIndex <= Len(datesToGenerate)
    /\ attempts < flags.retry

\* while (attempts < flags.retry && !success), for the date at dateIndex
InLoop ==
    /\ pc = "main"
    /\ ~flags.stats
    /\ dateIndex <= Len(datesToGenerate)
    /\ attempts < flags.retry
    /\ ~success

\* what no attempt changes
attemptFrame == <<validatorResults, stats, flags, firestore, datesToGenerate, dateIndex,
                  failedDates, pc, exitCode, game>>

\* generatePuzzleWithGemini returns null: the date already has its four groups
GenerateReturnsNull ==
    /\ InLoop
    /\ attempts' = attempts + 1
    /\ success' = TRUE
    /\ newPuzzle' = NoPuzzle
    /\ UNCHANGED <<existingPuzzles, uniquenessValidation, saved, attemptFrame>>

\* generatePuzzleWithGemini throws: the catch block logs and the loop goes on
GenerateThrows ==
    /\ InLoop
    /\ attempts' = attempts + 1
    /\ newPuzzle' = NoPuzzle
    /\ UNCHANGED <<existingPuzzles, uniquenessValidation, success, saved, attemptFrame>>

\* validatePuzzle finds issues: continue, or break at the last attempt
StructureValidationFails ==
    /\ InLoop
    /\ \E puzzle \in GeneratedSet(datesToGenerate[dateIndex]) :
        /\ ~validatePuzzle(puzzle).valid
        /\ newPuzzle' = puzzle
    /\ attempts' = attempts + 1
    /\ UNCHANGED <<existingPuzzles, uniquenessValidation, success, saved, attemptFrame>>

\* the options main passes to validatePuzzleUniqueness
MainOptions == [allowWordReuse |-> ~flags.strict, verbose |-> TRUE]

\* a plausible slip: --preview is not consulted before savePuzzle
SaveGeneratedInPreview ==
    /\ InLoop
    /\ \E puzzle \in GeneratedSet(datesToGenerate[dateIndex]), path \in SavePaths :
        LET validated == validatePuzzleUniqueness(puzzle, existingPuzzles, MainOptions)
        IN  /\ validatePuzzle(puzzle).valid
            /\ ShouldSave(displayValidationResults(validated), flags)
            /\ newPuzzle' = puzzle
            /\ uniquenessValidation' = validated
            /\ existingPuzzles' = savePuzzle(puzzle, existingPuzzles, path)
            /\ saved' = Append(saved, [puzzle     |-> puzzle,
                                        puzzles    |-> existingPuzzles,
                                        attempt    |-> attempts + 1,
                                        returned   |-> TRUE])
    /\ attempts' = attempts + 1
    /\ success' = TRUE
    /\ UNCHANGED attemptFrame

\* the puzzle is of sound structure, main does not preview, and the puzzle is
\* unique or --force is given: savePuzzle, success
SaveGenerated ==
    /\ InLoop
    /\ ~flags.preview
    /\ \E puzzle \in GeneratedSet(datesToGenerate[dateIndex]), path \in SavePaths :
        LET validation == validatePuzzle(puzzle)
            validated == validatePuzzleUniqueness(puzzle, existingPuzzles, MainOptions)
            isUnique == displayValidationResults(validated)
        IN  /\ validation.valid
            /\ ShouldSave(isUnique, flags)
            /\ newPuzzle' = puzzle
            /\ uniquenessValidation' = validated
            /\ existingPuzzles' = savePuzzle(puzzle, existingPuzzles, path)
            /\ saved' = Append(saved, [puzzle     |-> puzzle,
                                        puzzles    |-> existingPuzzles,
                                        attempt    |-> attempts + 1,
                                        returned   |-> TRUE])
    /\ attempts' = attempts + 1
    /\ success' = TRUE
    /\ UNCHANGED attemptFrame

\* as SaveGenerated, but savePuzzle falls back to the local file and
\* fs.writeFileSync throws: data.puzzles is already updated and sorted, the
\* catch block of main logs, and success stays false
SaveThrows ==
    /\ InLoop
    /\ ~flags.preview
    /\ \E puzzle \in GeneratedSet(datesToGenerate[dateIndex]) :
        LET validation == validatePuzzle(puzzle)
            validated == validatePuzzleUniqueness(puzzle, existingPuzzles, MainOptions)
            isUnique == displayValidationResults(validated)
        IN  /\ validation.valid
            /\ ShouldSave(isUnique, flags)
            /\ newPuzzle' = puzzle
            /\ uniquenessValidation' = validated
            /\ existingPuzzles' = savePuzzle(puzzle, existingPuzzles, "json")
            /\ saved' = Append(saved, [puzzle     |-> puzzle,
                                        puzzles    |-> existingPuzzles,
                                        attempt    |-> attempts + 1,
                                        returned   |-> FALSE])
    /\ attempts' = attempts + 1
    /\ UNCHANGED <<success, attemptFrame>>

\* the puzzle is of sound structure but not unique, and there is no --force:
\* it is not saved
RejectGenerated ==
    /\ InLoop
    /\ ~flags.preview
    /\ \E puzzle \in GeneratedSet(datesToGenerate[dateIndex]) :
        LET validated == validatePuzzleUniqueness(puzzle, existingPuzzles, MainOptions)
        IN  /\ validatePuzzle(puzzle).valid
            /\ ~ShouldSave(displayValidationResults(validated), flags)
            /\ newPuzzle' = puzzle
            /\ uniquenessValidation' = validated
    /\ attempts' = attempts + 1
    /\ UNCHANGED <<existingPuzzles, success, saved, attemptFrame>>

\* --preview: the puzzle is shown and validated, never saved
PreviewGenerated ==
    /\ InLoop
    /\ flags.preview
    /\ \E puzzle \in GeneratedSet(datesToGenerate[dateIndex]) :
        /\ validatePuzzle(puzzle).valid
        /\ newPuzzle' = puzzle
        /\ uniquenessValidation' =
              validatePuzzleUniqueness(puzzle, existingPuzzles, MainOptions)
    /\ attempts' = attempts + 1
    /\ success' = TRUE
    /\ UNCHANGED <<existingPuzzles, saved, attemptFrame>>

\* if (!success && !flags.preview) failedDates.push(date)
FailedDatesAfter(ok, f, failed, date) ==
    IF ~ok /\ ~f.preview THEN Append(failed, date) ELSE failed

\* a plausible slip: the run always ends normally
ExitCodeAlwaysZero(failed) == 0

\* if (failedDates.length > 0) process.exit(1)
ExitCodeOf(failed) == IF Len(failed) > 0 THEN 1 ELSE 0

\* the while loop is left: the date is recorded as failed unless it succeeded
\* or main previews, and the for loop moves on
EndOfDate ==
    /\ pc = "main"
    /\ ~flags.stats
    /\ dateIndex <= Len(datesToGenerate)
    /\ ~(attempts < flags.retry /\ ~success)
    /\ failedDates' = FailedDatesAfter(success, flags, failedDates,
                                        datesToGenerate[dateIndex])
    /\ dateIndex' = dateIndex + 1
    /\ attempts' = 0
    /\ success' = FALSE
    /\ UNCHANGED <<inputs, validatorResults, uniquenessValidation, stats, flags, firestore,
                   datesToGenerate, saved, pc, exitCode, game>>

\* after the last date: process.exit(1) if a date failed
Exit ==
    /\ pc = "main"
    /\ ~flags.stats
    /\ dateIndex > Len(datesToGenerate)
    /\ exitCode' = ExitCodeOf(failedDates)
    /\ pc' = "done"
    /\ UNCHANGED <<inputs, validatorResults, uniquenessValidation, stats, flags, firestore,
                   datesToGenerate, dateIndex, attempts, success, failedDates, saved,
                   game>>

NextMain ==
    \/ ShowStats
    \/ GenerateReturnsNull
    \/ GenerateThrows
    \/ StructureValidationFails
    \/ SaveGenerated
    \/ SaveThrows
    \/ RejectGenerated
    \/ PreviewGenerated
    \/ EndOfDate
    \/ Exit

SpecMain == InitMain /\ [][NextMain]_vars

----------------------------------------------------------------------------
(* Vocabulary of the claims: what the inputs are, stated on sets *)

Validated == call.op = "validatePuzzleUniqueness"

\* the option values in force in the current validatePuzzleUniqueness call
AllowWordReuse == Option(call.options, "allowWordReuse", TRUE)
AllowSimilarExplanations == Option(call.options, "allowSimilarExplanations", TRUE)
MinGroupOverlap == Option(call.options, "minGroupOverlap", 3)
Verbose == Option(call.options, "verbose", TRUE)
DefaultOptions == AllowWordReuse /\ AllowSimilarExplanations /\ MinGroupOverlap = 3

\* the words of a list, compared case-insensitively
LowerSet(ws) == {toLowerCase(w) : w \in Range(ws)}

SameDate(i) == existingPuzzles[i].date = newPuzzle.date
SameWordSet(i) == LowerSet(existingPuzzles[i].words) = LowerSet(newPuzzle.words)
Matches(i) == SameDate(i) \/ SameWordSet(i)
CorpusIndex == 1..Len(existingPuzzles)
IsExactDup == \E i \in CorpusIndex : Matches(i)

\* the pairs (candidate group, corpus puzzle, group of that puzzle)
GroupPairs ==
    UNION {{<<g, i, k>> : g \in 1..Len(newPuzzle.groups),
                          k \in 1..Len(existingPuzzles[i].groups)} : i \in CorpusIndex}
Shared(pr) ==
    LowerSet(newPuzzle.groups[pr[1]].words)
        \cap LowerSet(existingPuzzles[pr[2]].groups[pr[3]].words)
Qualifying(m) == {pr \in GroupPairs : Cardinality(Shared(pr)) >= m}

\* the messages of one kind in a bucket
OfKind(msgs, kind) == SelectSeq(msgs, LAMBDA e : e.kind = kind)

\* the positions of the candidate's words that some corpus puzzle uses
ReusedPositions ==
    {n \in 1..Len(newPuzzle.words) :
        \E i \in CorpusIndex :
            toLowerCase(newPuzzle.words[n]) \in LowerSet(existingPuzzles[i].words)}

\* the explanations of the corpus groups
CorpusExplanations ==
    {existingPuzzles[pr[2]].groups[pr[3]].explanation : pr \in GroupPairs}

\* the candidate groups whose explanation is, up to letter case, the
\* explanation of some corpus group
MatchingGroups ==
    {g \in 1..Len(newPuzzle.groups) :
        \E e \in CorpusExplanations :
            toLowerCase(newPuzzle.groups[g].explanation) = toLowerCase(e)}

----------------------------------------------------------------------------
(* Claims *)

\* C1: the result of validatePuzzleUniqueness has valid = false if and only
\* if its errors list is non-empty, whatever warnings and info hold.
C1_ValidIffNoErrors ==
    Validated => (uniquenessValidation.valid = FALSE <=> Len(uniquenessValidation.errors) > 0)

\* C1 happens: an accepted candidate that carries warnings and info notes
C1_Witness ==
    /\ Validated
    /\ uniquenessValidation.valid
    /\ Len(uniquenessValidation.warnings) > 0
    /\ Len(uniquenessValidation.info) > 0

\* C2 as stated: on a date collision the single error cites the colliding
\* date (the candidate's own date), and nothing else is reported.
C2_CitesCollidingDate ==
    (Validated /\ \E i \in CorpusIndex : SameDate(i)) =>
        /\ uniquenessValidation.valid = FALSE
        /\ Len(uniquenessValidation.errors) = 1
        /\ uniquenessValidation.errors[1].kind = "ExactDuplicate"
        /\ uniquenessValidation.errors[1].date = newPuzzle.date
        /\ uniquenessValidation.warnings = <<>>
        /\ uniquenessValidation.info = <<>>

\* C2 amended: on a date collision the result is rejecting with exactly one
\* error and no warning or info; the error cites the date of the first corpus
\* puzzle that has the candidate's date or its lowercase word set, which is
\* the colliding date unless an earlier puzzle has the candidate's word set.
C2_DateCollisionShortCircuits ==
    \A i \in CorpusIndex :
        (Validated /\ SameDate(i)) =>
            /\ uniquenessValidation.valid = FALSE
            /\ Len(uniquenessValidation.errors) = 1
            /\ uniquenessValidation.errors[1].kind = "ExactDuplicate"
            /\ \E f \in 1..i :
                  /\ Matches(f)
                  /\ \A j \in 1..f - 1 : ~Matches(j)
                  /\ uniquenessValidation.errors[1].date = existingPuzzles[f].date
            /\ (\A j \in 1..i - 1 : ~SameWordSet(j)) =>
                  uniquenessValidation.errors[1].date = newPuzzle.date
            /\ uniquenessValidation.warnings = <<>>
            /\ uniquenessValidation.info = <<>>

\* C2 happens: a date collision with a puzzle whose words differ, with words
\* reused and an explanation repeated, and still nothing but the one error
C2_Witness ==
    /\ Validated
    /\ \E i \in CorpusIndex : SameDate(i) /\ ~SameWordSet(i)
    /\ ReusedPositions # {}
    /\ uniquenessValidation.errors = <<[kind |-> "ExactDuplicate", date |-> newPuzzle.date]>>

\* C3: for every minGroupOverlap m and every allowWordReuse and
\* allowSimilarExplanations, when the candidate is not an exact duplicate: a
\* candidate group sharing m or more words with a corpus group makes the
\* result rejecting, with an error for that pair whose overlapCount is the size
\* of the true intersection; if every pair shares at most m - 1 words there is
\* no group-overlap error.
C3_GroupOverlapThreshold ==
    (Validated /\ ~IsExactDup) =>
        LET overlapErrors == OfKind(uniquenessValidation.errors, "GroupOverlap")
        IN  /\ \A pr \in Qualifying(MinGroupOverlap) :
                  /\ uniquenessValidation.valid = FALSE
                  /\ \E n \in 1..Len(overlapErrors) :
                        LET e == overlapErrors[n]
                            p == existingPuzzles[pr[2]]
                        IN  /\ e.newGroupExplanation = newPuzzle.groups[pr[1]].explanation
                            /\ e.previousDate = p.date
                            /\ e.previousExplanation = p.groups[pr[3]].explanation
                            /\ e.overlapCount = Cardinality(Shared(pr))
            /\ \A n \in 1..Len(overlapErrors) :
                  \E pr \in Qualifying(MinGroupOverlap) :
                      /\ overlapErrors[n].previousDate = existingPuzzles[pr[2]].date
                      /\ overlapErrors[n].overlapCount = Cardinality(Shared(pr))
            /\ Qualifying(MinGroupOverlap) = {} => Len(overlapErrors) = 0

\* C3 happens: with word reuse and similar explanations allowed, one corpus
\* group is at the threshold and is reported, another is one word short of it
C3_Witness ==
    /\ Validated
    /\ ~IsExactDup
    /\ AllowWordReuse
    /\ AllowSimilarExplanations
    /\ MinGroupOverlap = 3
    /\ \E pr \in GroupPairs : Cardinality(Shared(pr)) = MinGroupOverlap
    /\ \E pr \in GroupPairs : Cardinality(Shared(pr)) = MinGroupOverlap - 1
    /\ Len(OfKind(uniquenessValidation.errors, "GroupOverlap")) = 1
    /\ uniquenessValidation.valid = FALSE

\* C4 as stated: with default options, every candidate that reuses corpus
\* words but has no group sharing 3 or more words with a corpus group is accepted.
C4_ReuseAccepted ==
    (Validated /\ DefaultOptions /\ ReusedPositions # {} /\ Qualifying(3) = {}) =>
        uniquenessValidation.valid = TRUE

\* C4 amended: with default options, every candidate that is not an exact
\* duplicate (its date is in no corpus puzzle and its lowercase word set is
\* that of no corpus puzzle), reuses corpus words and has no group sharing 3
\* or more words with a corpus group is accepted.
C4_ReuseAcceptedUnlessExactDuplicate ==
    (Validated /\ DefaultOptions /\ ~IsExactDup /\ ReusedPositions # {} /\ Qualifying(3) = {}) =>
        uniquenessValidation.valid = TRUE

\* C4 happens: words of two corpus puzzles are reused, below the threshold
C4_Witness ==
    /\ Validated
    /\ call.options = <<>>
    /\ ~IsExactDup
    /\ Len(existingPuzzles) = 2
    /\ \A i \in CorpusIndex :
          \E n \in 1..Len(newPuzzle.words) : newPuzzle.words[n] \in Range(existingPuzzles[i].words)
    /\ Qualifying(3) = {}
    /\ uniquenessValidation.valid = TRUE

\* C5: with default options the result is rejecting exactly when the candidate
\* is an exact duplicate (same date, or same case-insensitive word set) or some
\* candidate group shares 3 or more words with one corpus group; reused words
\* and repeated explanations by themselves only add warnings.
C5_DefaultVerdict ==
    (Validated /\ DefaultOptions) =>
        /\ uniquenessValidation.valid = FALSE <=> (IsExactDup \/ Qualifying(3) # {})
        /\ \A n \in 1..Len(uniquenessValidation.errors) :
              uniquenessValidation.errors[n].kind \in {"ExactDuplicate", "GroupOverlap"}
        /\ (~IsExactDup /\ ReusedPositions # {}) =>
              Len(OfKind(uniquenessValidation.warnings, "WordsReused")) = 1
        /\ (~IsExactDup /\ \E g \in 1..Len(newPuzzle.groups), pr \in GroupPairs :
                toLowerCase(newPuzzle.groups[g].explanation)
                    = toLowerCase(existingPuzzles[pr[2]].groups[pr[3]].explanation))
             => Len(OfKind(uniquenessValidation.warnings, "SimilarExplanations")) = 1

\* C5 happens: default options, a fresh date and a new word set, a group with
\* 3 words of a corpus group: rejected for the group overlap alone
C5_Witness ==
    /\ Validated
    /\ DefaultOptions
    /\ ~IsExactDup
    /\ Qualifying(3) # {}
    /\ uniquenessValidation.valid = FALSE
    /\ \A n \in 1..Len(uniquenessValidation.errors) :
          uniquenessValidation.errors[n].kind = "GroupOverlap"
    /\ Len(uniquenessValidation.warnings) = 2 + Cardinality(ReusedPositions)

\* C6 as stated: a candidate with a fresh date and the words of a corpus
\* puzzle P (any order, any case) makes checkForExactDuplicate return P and
\* validatePuzzleUniqueness reject; with a fresh date and a word set that no
\* corpus puzzle has, no exact duplicate is found.
C6_ReturnsThatPuzzle ==
    (\A i \in CorpusIndex : ~SameDate(i)) =>
        /\ \A i \in CorpusIndex :
              SameWordSet(i) =>
                  /\ call.op = "checkForExactDuplicate" => exactDuplicate = <<existingPuzzles[i]>>
                  /\ Validated => uniquenessValidation.valid = FALSE
        /\ (\A i \in CorpusIndex : ~SameWordSet(i)) =>
              /\ call.op = "checkForExactDuplicate" => exactDuplicate = <<>>
              /\ Validated => OfKind(uniquenessValidation.errors, "ExactDuplicate") = <<>>

\* C6 amended: a candidate with a fresh date and the words of a corpus puzzle
\* (any order, any case) is an exact duplicate: checkForExactDuplicate returns
\* the first corpus puzzle, in corpus order, that has this word set, and
\* validatePuzzleUniqueness rejects; with a fresh date and a word set that no
\* corpus puzzle has, no exact duplicate is found.
C6_WordSetDuplicate ==
    (\A i \in CorpusIndex : ~SameDate(i)) =>
        /\ \A i \in CorpusIndex :
              (SameWordSet(i) /\ \A j \in 1..i - 1 : ~SameWordSet(j)) =>
                  /\ call.op = "checkForExactDuplicate" => exactDuplicate = <<existingPuzzles[i]>>
                  /\ Validated => uniquenessValidation.valid = FALSE
        /\ (\A i \in CorpusIndex : ~SameWordSet(i)) =>
              /\ call.op = "checkForExactDuplicate" => exactDuplicate = <<>>
              /\ Validated => OfKind(uniquenessValidation.errors, "ExactDuplicate") = <<>>

\* C6 happens: the candidate lists the words of the second corpus puzzle in
\* another order and another case, under a fresh date
C6_Witness ==
    /\ call.op = "checkForExactDuplicate"
    /\ Len(existingPuzzles) = 2
    /\ \A i \in CorpusIndex : ~SameDate(i)
    /\ ~SameWordSet(1)
    /\ SameWordSet(2)
    /\ Map(newPuzzle.words, toLowerCase) # Map(existingPuzzles[2].words, toLowerCase)
    /\ newPuzzle.words # existingPuzzles[2].words
    /\ exactDuplicate = <<existingPuzzles[2]>>

\* C7: checkForExactDuplicate returns the first puzzle in corpus order that
\* matches the candidate by date or by word set, and no puzzle when none
\* matches; the exact-duplicate error of validatePuzzleUniqueness cites the
\* date of that first match.
C7_FirstMatch ==
    /\ call.op = "checkForExactDuplicate" =>
          /\ \A i \in CorpusIndex :
                (Matches(i) /\ \A j \in 1..i - 1 : ~Matches(j)) =>
                    exactDuplicate = <<existingPuzzles[i]>>
          /\ ~IsExactDup => exactDuplicate = <<>>
    /\ Validated =>
          /\ \A i \in CorpusIndex :
                (Matches(i) /\ \A j \in 1..i - 1 : ~Matches(j)) =>
                    uniquenessValidation.errors =
                        <<[kind |-> "ExactDuplicate", date |-> existingPuzzles[i].date]>>
          /\ ~IsExactDup => OfKind(uniquenessValidation.errors, "ExactDuplicate") = <<>>

\* C7 happens: both corpus puzzles match, the first by its words and the
\* second by its date, and the first is the one returned
C7_Witness ==
    /\ call.op = "checkForExactDuplicate"
    /\ Len(existingPuzzles) = 2
    /\ SameWordSet(1) /\ ~SameDate(1)
    /\ SameDate(2) /\ ~SameWordSet(2)
    /\ exactDuplicate = <<existingPuzzles[1]>>

\* the dates of the corpus puzzles whose own word list holds the word as written
DatesListing(word) ==
    {existingPuzzles[i].date : i \in {j \in CorpusIndex : word \in Range(existingPuzzles[j].words)}}

\* the n-th smallest element of a set of positions
RECURSIVE NthOf(_, _)
NthOf(S, n) ==
    LET least == CHOOSE x \in S : \A y \in S : x <= y
    IN  IF n = 1 THEN least ELSE NthOf(S \ {least}, n - 1)

\* no element of the list occurs twice
NoRepeats(list) == Cardinality(Range(list)) = Len(list)

\* C8: checkForDuplicateGroups returns exactly one record for every pair
\* (candidate group, corpus group) whose case-insensitive intersection has at
\* least minOverlap words and no record for any other pair; the record's
\* overlappingWords is that intersection, its previousDate and
\* previousExplanation are those of the corpus group.
C8_OneRecordPerQualifyingPair ==
    call.op = "checkForDuplicateGroups" =>
        LET Q == Qualifying(call.minOverlap)
            Describes(r, pr) ==
                /\ r.groupIndex = pr[1] - 1
                /\ r.previousDate = existingPuzzles[pr[2]].date
                /\ r.previousExplanation = existingPuzzles[pr[2]].groups[pr[3]].explanation
                /\ Range(r.overlappingWords) = Shared(pr)
                /\ NoRepeats(r.overlappingWords)
                /\ r.overlapCount = Cardinality(Shared(pr))
        IN  /\ Len(duplicateGroups) = Cardinality(Q)
            /\ \A pr \in Q : \E n \in 1..Len(duplicateGroups) : Describes(duplicateGroups[n], pr)
            /\ \A n \in 1..Len(duplicateGroups) : \E pr \in Q : Describes(duplicateGroups[n], pr)
            /\ \A g \in 1..Len(newPuzzle.groups), i \in CorpusIndex :
                  Cardinality({n \in 1..Len(duplicateGroups) :
                                  /\ duplicateGroups[n].groupIndex = g - 1
                                  /\ duplicateGroups[n].previousDate = existingPuzzles[i].date})
                      = Cardinality({pr \in Q : pr[1] = g /\ pr[2] = i})

\* C8 happens: both corpus groups reach the threshold and both are reported,
\* one of them through words that differ in case
C8_Witness ==
    /\ call.op = "checkForDuplicateGroups"
    /\ call.minOverlap = 3
    /\ Len(existingPuzzles) = 2
    /\ Len(duplicateGroups) = 2
    /\ duplicateGroups[1].overlapCount # duplicateGroups[2].overlapCount
    /\ \E n \in 1..2 :
          ~(Range(duplicateGroups[n].overlappingWords) \subseteq Range(newPuzzle.words))

\* C9: with allowWordReuse = false, a candidate that is not an exact duplicate
\* and reuses a corpus word is rejected; errors holds one word-reuse reason per
\* entry of checkForDuplicateWords, that is per reused candidate word, naming
\* the word and the dates it was used in; there is no word-reuse warning.
C9_StrictWordReuse ==
    (Validated /\ ~AllowWordReuse /\ ~IsExactDup /\ ReusedPositions # {}) =>
        LET wordErrors == OfKind(uniquenessValidation.errors, "WordUsed")
            entries == checkForDuplicateWords(newPuzzle, existingPuzzles)
        IN  /\ uniquenessValidation.valid = FALSE
            /\ Len(wordErrors) = Cardinality(ReusedPositions)
            /\ Len(wordErrors) = Len(entries)
            /\ \A n \in 1..Len(wordErrors) :
                  /\ wordErrors[n].word = newPuzzle.words[NthOf(ReusedPositions, n)]
                  /\ wordErrors[n].word = entries[n].word
                  /\ wordErrors[n].usedIn = entries[n].usedIn
                  /\ Range(wordErrors[n].usedIn) = DatesListing(wordErrors[n].word)
            /\ \A n \in 1..Len(uniquenessValidation.warnings) :
                  uniquenessValidation.warnings[n].kind
                      \notin {"WordsReused", "WordDetail", "MoreWords"}

\* C9 happens: strict mode, no group at the threshold, several words reused
C9_Witness ==
    /\ Validated
    /\ ~AllowWordReuse
    /\ AllowSimilarExplanations
    /\ ~IsExactDup
    /\ Qualifying(MinGroupOverlap) = {}
    /\ Cardinality(ReusedPositions) >= 2
    /\ Len(uniquenessValidation.errors) = Cardinality(ReusedPositions)
    /\ uniquenessValidation.valid = FALSE

\* C10: checkForDuplicateWords returns one entry for each candidate word that
\* matches, case-insensitively, a word of some corpus puzzle and no entry for
\* any other word; the entry's date list is exactly the dates of the corpus
\* puzzles whose own word list holds the word with identical casing.
C10_DuplicateWordEntries ==
    call.op = "checkForDuplicateWords" =>
        /\ Len(duplicateWords) = Cardinality(ReusedPositions)
        /\ \A n \in 1..Len(duplicateWords) :
              /\ duplicateWords[n].word = newPuzzle.words[NthOf(ReusedPositions, n)]
              /\ Range(duplicateWords[n].usedIn) = DatesListing(duplicateWords[n].word)
              /\ NoRepeats(duplicateWords[n].usedIn)

\* C10 happens: one word is listed by both corpus puzzles and has both dates,
\* another is matched only through its letter case and has no date
C10_Witness ==
    /\ call.op = "checkForDuplicateWords"
    /\ Len(existingPuzzles) = 2
    /\ \E n \in 1..Len(duplicateWords) : Len(duplicateWords[n].usedIn) = 2
    /\ \E n \in 1..Len(duplicateWords) :
          /\ duplicateWords[n].usedIn = <<>>
          /\ \E i \in CorpusIndex :
                toLowerCase(duplicateWords[n].word) \in LowerSet(existingPuzzles[i].words)

\* C11: checkForSimilarExplanations returns, as the candidate writes it, the
\* explanation of every candidate group whose explanation equals that of some
\* corpus group when letter case is ignored, in group order, and nothing else.
C11_SimilarExplanations ==
    call.op = "checkForSimilarExplanations" =>
        /\ Len(similarExplanations) = Cardinality(MatchingGroups)
        /\ \A n \in 1..Len(similarExplanations) :
              similarExplanations[n] = newPuzzle.groups[NthOf(MatchingGroups, n)].explanation

\* C11 happens: two of three candidate groups are flagged, one of them with
\* an explanation that no corpus group writes in that letter case
C11_Witness ==
    /\ call.op = "checkForSimilarExplanations"
    /\ Len(newPuzzle.groups) = 3
    /\ Len(similarExplanations) = 2
    /\ \E n \in 1..2 : similarExplanations[n] \notin CorpusExplanations

\* C12: when the candidate is not an exact duplicate and some explanation
\* matches: with allowSimilarExplanations = false every matching explanation
\* adds one rejection reason and valid is false; with allowSimilarExplanations
\* = true exactly one warning carrying the number of matches is added and the
\* explanation check adds no error.
C12_SimilarExplanationPolicy ==
    (Validated /\ ~IsExactDup /\ MatchingGroups # {}) =>
        LET reasons == OfKind(uniquenessValidation.errors, "ExplanationUsed")
            notes == OfKind(uniquenessValidation.warnings, "SimilarExplanations")
        IN  IF ~AllowSimilarExplanations
            THEN /\ uniquenessValidation.valid = FALSE
                 /\ Len(reasons) = Cardinality(MatchingGroups)
                 /\ \A n \in 1..Len(reasons) :
                       reasons[n].explanation
                           = newPuzzle.groups[NthOf(MatchingGroups, n)].explanation
            ELSE /\ notes = <<[kind |-> "SimilarExplanations",
                               count |-> Cardinality(MatchingGroups)]>>
                 /\ reasons = <<>>

\* C12 happens: two explanations match and similar explanations are not
\* allowed: the candidate is rejected for these two reasons alone
C12_Witness ==
    /\ Validated
    /\ ~IsExactDup
    /\ ~AllowSimilarExplanations
    /\ Cardinality(MatchingGroups) = 2
    /\ Len(uniquenessValidation.errors) = 2
    /\ \A n \in 1..2 : uniquenessValidation.errors[n].kind = "ExplanationUsed"
    /\ uniquenessValidation.valid = FALSE

\* the detail line of the k-th reused candidate word
DetailLine(line, k) ==
    /\ line.kind = "WordDetail"
    /\ line.word = newPuzzle.words[NthOf(ReusedPositions, k)]
    /\ Range(line.usedIn) = DatesListing(line.word)

\* what C13 says of the warnings when n candidate words are reused
WordReuseWarnings ==
    LET n == Cardinality(ReusedPositions)
        shown == IF n < 5 THEN n ELSE 5
        warnings == uniquenessValidation.warnings
    IN  /\ OfKind(warnings, "WordsReused") = <<[kind |-> "WordsReused", count |-> n]>>
        /\ warnings[1].kind = "WordsReused"
        /\ IF Verbose
           THEN /\ Len(OfKind(warnings, "WordDetail")) = shown
                /\ \A k \in 1..shown : DetailLine(warnings[1 + k], k)
                /\ IF n > 5
                   THEN /\ OfKind(warnings, "MoreWords")
                              = <<[kind |-> "MoreWords", count |-> n - 5]>>
                        /\ warnings[2 + shown].kind = "MoreWords"
                   ELSE OfKind(warnings, "MoreWords") = <<>>
           ELSE /\ OfKind(warnings, "WordDetail") = <<>>
                /\ OfKind(warnings, "MoreWords") = <<>>

\* C13 as stated: with allowWordReuse = true and n >= 1 reused candidate
\* words, warnings holds exactly one summary line with count n; if verbose it
\* is followed by one detail line for each of the first min(n, 5) reused words,
\* citing the word and its prior dates, and by one 'n - 5 more' line exactly
\* when n > 5; if not verbose there is no detail line.
C13_ReuseWarnings ==
    (Validated /\ AllowWordReuse /\ ReusedPositions # {}) => WordReuseWarnings

\* C13 amended: the same, for a candidate that is not an exact duplicate of a
\* corpus puzzle (an exact duplicate returns before the word check and gets
\* no warning at all).
C13_ReuseWarningsUnlessExactDuplicate ==
    (Validated /\ AllowWordReuse /\ ~IsExactDup /\ ReusedPositions # {}) => WordReuseWarnings

\* C13 happens: more than five words are reused, five detail lines and the
\* line counting the rest follow the summary
C13_Witness ==
    /\ Validated
    /\ AllowWordReuse
    /\ Verbose
    /\ ~IsExactDup
    /\ Cardinality(ReusedPositions) > 6
    /\ Len(OfKind(uniquenessValidation.warnings, "WordDetail")) = 5
    /\ uniquenessValidation.warnings[7]
          = [kind |-> "MoreWords", count |-> Cardinality(ReusedPositions) - 5]

\* the number of corpus puzzles that hold the word, letter case ignored
PuzzlesHolding(word) ==
    Cardinality({i \in CorpusIndex : word \in LowerSet(existingPuzzles[i].words)})

\* C14: getWordUsageStats on a corpus of N puzzles reports totalPuzzles = N,
\* and the usage count of a word is the number of distinct corpus puzzles that
\* hold it, letter case ignored, however often it occurs inside one puzzle.
C14_UsageCountsPuzzles ==
    call.op = "getWordUsageStats" =>
        /\ stats.totalPuzzles = Len(existingPuzzles)
        /\ \A n \in 1..Len(stats.reusedWords) :
              stats.reusedWords[n][2] = PuzzlesHolding(stats.reusedWords[n][1])

\* the number of times the corpus lists the word, letter case ignored
Usage(word) ==
    Cardinality({pos \in UNION {{<<i, n>> : n \in 1..Len(existingPuzzles[i].words)} :
                                    i \in CorpusIndex} :
                    toLowerCase(existingPuzzles[pos[1]].words[pos[2]]) = word})

\* the words of the corpus, in lower case
CorpusWords == UNION {LowerSet(existingPuzzles[i].words) : i \in CorpusIndex}

\* the words that reusedWords lists
Listed == {stats.reusedWords[n][1] : n \in 1..Len(stats.reusedWords)}

ResultOfArguments ==
    /\ uniquenessValidation =
          IF Validated
          THEN validatePuzzleUniqueness(newPuzzle, existingPuzzles, call.options)
          ELSE NewResults
    /\ exactDuplicate =
          IF call.op = "checkForExactDuplicate"
          THEN checkForExactDuplicate(newPuzzle, existingPuzzles) ELSE <<>>
    /\ duplicateWords =
          IF call.op = "checkForDuplicateWords"
          THEN checkForDuplicateWords(newPuzzle, existingPuzzles) ELSE <<>>
    /\ duplicateGroups =
          IF call.op = "checkForDuplicateGroups"
          THEN checkForDuplicateGroups(newPuzzle, existingPuzzles, call.minOverlap) ELSE <<>>
    /\ similarExplanations =
          IF call.op = "checkForSimilarExplanations"
          THEN checkForSimilarExplanations(newPuzzle, existingPuzzles) ELSE <<>>
    /\ stats =
          IF call.op = "getWordUsageStats"
          THEN getWordUsageStats(existingPuzzles) ELSE getWordUsageStats(<<>>)

GroupKinds == {"GroupOverlap", "GroupsUnique"}
WordKinds == {"WordUsed", "WordsReused", "WordDetail", "MoreWords", "NoDuplicateWords"}
ExplanationKinds == {"ExplanationUsed", "SimilarExplanations", "ExplanationsUnique"}

\* the number of messages of these kinds in a bucket
CountOf(msgs, kinds) == Cardinality({n \in 1..Len(msgs) : msgs[n].kind \in kinds})

\* a check with these kinds of message fills exactly one bucket: one info
\* note if it found nothing, else errors only or warnings only
OneBucket(kinds, foundSomething) ==
    LET errors == CountOf(uniquenessValidation.errors, kinds)
        warnings == CountOf(uniquenessValidation.warnings, kinds)
        info == CountOf(uniquenessValidation.info, kinds)
    IN  IF foundSomething
        THEN info = 0 /\ (errors > 0) # (warnings > 0)
        ELSE info = 1 /\ errors = 0 /\ warnings = 0

\* C17: when the candidate is not an exact duplicate, each of the three
\* remaining checks (group overlap, word reuse, explanation reuse) contributes
\* to exactly one bucket: a check that found nothing adds exactly one info
\* note and no error or warning, a check that found something adds only
\* errors or only warnings and no info note.
C17_OneBucketPerCheck ==
    (Validated /\ ~IsExactDup) =>
        /\ OneBucket(GroupKinds, Qualifying(MinGroupOverlap) # {})
        /\ OneBucket(WordKinds, ReusedPositions # {})
        /\ OneBucket(ExplanationKinds, MatchingGroups # {})
        /\ \A bucket \in {uniquenessValidation.errors, uniquenessValidation.warnings,
                            uniquenessValidation.info} :
              Len(bucket) = CountOf(bucket, GroupKinds \cup WordKinds \cup ExplanationKinds)

\* C17 happens: the group check rejects, the word check warns and the
\* explanation check finds nothing, one bucket each
C17_Witness ==
    /\ Validated
    /\ ~IsExactDup
    /\ Qualifying(MinGroupOverlap) # {}
    /\ ReusedPositions # {}
    /\ MatchingGroups = {}
    /\ \A n \in 1..Len(uniquenessValidation.errors) :
          uniquenessValidation.errors[n].kind = "GroupOverlap"
    /\ uniquenessValidation.warnings # <<>>
    /\ \A n \in 1..Len(uniquenessValidation.warnings) :
          uniquenessValidation.warnings[n].kind \in WordKinds
    /\ uniquenessValidation.info = <<[kind |-> "ExplanationsUnique"]>>

\* the step of validatePuzzleUniqueness that adds a message of this kind
StepOf(kind) ==
    IF kind = "ExactDuplicate" THEN 1
    ELSE IF kind \in GroupKinds THEN 2
    ELSE IF kind \in WordKinds THEN 3
    ELSE 4

\* the messages of a bucket are in the order of the steps
InStepOrder(msgs) ==
    \A n \in 1..Len(msgs), m \in 1..Len(msgs) :
        n < m => StepOf(msgs[n].kind) <= StepOf(msgs[m].kind)

\* C18: the checks run in the order exact duplicate, group overlap, word
\* reuse, explanation reuse and their messages accumulate in that order: in
\* errors every group-overlap reason precedes every word-reuse reason, which
\* precedes every explanation reason, and the same step order holds inside
\* warnings and inside info.
C18_MessagesInStepOrder ==
    Validated =>
        /\ InStepOrder(uniquenessValidation.errors)
        /\ InStepOrder(uniquenessValidation.warnings)
        /\ InStepOrder(uniquenessValidation.info)
        /\ \A n \in 1..Len(uniquenessValidation.errors) :
              uniquenessValidation.errors[n].kind = "ExactDuplicate" =>
                  Len(uniquenessValidation.errors) = 1

\* C18 happens: all three checks reject, and the reasons come group first,
\* then word, then explanation
C18_Witness ==
    /\ Validated
    /\ Len(uniquenessValidation.errors) >= 3
    /\ uniquenessValidation.errors[1].kind = "GroupOverlap"
    /\ \E n \in 1..Len(uniquenessValidation.errors) :
          uniquenessValidation.errors[n].kind = "WordUsed"
    /\ uniquenessValidation.errors[Len(uniquenessValidation.errors)].kind = "ExplanationUsed"

----------------------------------------------------------------------------
(* The game: script.js and analytics.js, one event handler or callback per step.
   Times are not modelled: a callback that is due runs at any later step. *)

\* dots.length: the number of .dot elements of the page
TotalDots == 2

\* the callbacks that can be waiting at once
MaxPending == 2

\* the wrong guesses a session can remember
MaxGuesses == 3

\* the clicks that fit in before a timer that is set runs
MaxEventsBeforeTimer == 1

\* if (selectedItems.length === 4)
SelectionSize == 4

\* the words on the tiles, and their order under Array.prototype.sort
TileRank == ("a" :> 1) @@ ("b" :> 2) @@ ("c" :> 3) @@ ("d" :> 4) @@ ("e" :> 5) @@ ("f" :> 6)

\* the day the page is opened
FirstDay == 2

\* the groups of the puzzle served for a date: the page never reads the size
\* of a group, and a grid of six tiles keeps the guesses few; the puzzle of
\* the day has two groups, an older one a single group
ServedGroups(date) ==
    IF date = DateOfDay[FirstDay]
    THEN <<[words |-> {"a", "b", "c", "d"}, guessed |-> FALSE],
           [words |-> {"e", "f"}, guessed |-> FALSE]>>
    ELSE <<[words |-> {"a", "b", "c", "d"}, guessed |-> FALSE]>>

\* a puzzle as the loaders leave it: every group unguessed; words and
\* group.words are arrays read only through includes, every and filter, and
\* shuffleGrid orders puzzle.words at random, so both are sets here; source
\* tells which loader put the puzzle on the grid
ServedPuzzle(date, source) ==
    [date |-> date, source |-> source,
     words |-> UNION {ServedGroups(date)[i].words : i \in 1..Len(ServedGroups(date))},
     groups |-> ServedGroups(date)]

\* new Date().toISOString().split('T')[0]
Today(g) == DateOfDay[g.today]

\* the dates loadArchivePuzzles returns: where('date', '<=', today)
ArchiveDates(today) == {DateOfDay[day] : day \in 1..today}

\* [...selectedItems].sort(): insertion sort by code unit
RECURSIVE SortWords(_)
SortWords(ws) ==
    IF ws = <<>> THEN <<>>
    ELSE LET w == ws[Len(ws)]
             front == SortWords(SubSeq(ws, 1, Len(ws) - 1))
             ahead == Cardinality({i \in 1..Len(front) : TileRank[front[i]] <= TileRank[w]})
         IN  SubSeq(front, 1, ahead) \o <<w>> \o SubSeq(front, ahead + 1, Len(front))

\* [...selectedItems].sort().join('|'): the sorted words; join is one to one
\* on words without the separator
GuessKey(selected) == SortWords(selected)

\* a number for each callback, to keep those waiting in one order: they run
\* in any order, so the order they were set in is not kept
FnRank ==
    ("loadTodaysPuzzle" :> 0) @@ ("endGame" :> 1) @@ ("revealSolutions" :> 2)
        @@ ("showNicknamePrompt" :> 3)

OriginRank == ("none" :> 0) @@ ("daily" :> 1) @@ ("archive" :> 2)

CallbackRank(c) ==
    (MaxEventsBeforeTimer + 1)
        * (24 * FnRank[c.fn] + 12 * (IF c.won THEN 1 ELSE 0) + 6 * (IF c.stale THEN 1 ELSE 0)
              + 2 * OriginRank[c.origin] + (IF c.date = "" THEN 0 ELSE 1))
        + c.age

\* setTimeout and await: the callback joins those waiting
Later(g, callback) ==
    LET ahead == Cardinality({i \in 1..Len(g.pending) :
                                 CallbackRank(g.pending[i]) <= CallbackRank(callback)})
    IN  [g EXCEPT !.pending = SubSeq(@, 1, ahead) \o <<callback>>
                                \o SubSeq(@, ahead + 1, Len(@))]

Callback(fn, date, won, origin) ==
    [fn |-> fn, date |-> date, won |-> won, origin |-> origin, stale |-> FALSE, age |-> 0]

\* the callbacks set with setTimeout; the others wait for the network or for
\* the player
IsTimer(c) == c.fn \in {"endGame", "revealSolutions"}

\* a new puzzle is put on the grid: the endGame timers of the game before
\* belong to a game that is gone
NewGame(g) ==
    [g EXCEPT !.calls.endGameCalls = 0,
              !.pending = [i \in 1..Len(@) |->
                              IF @[i].fn = "endGame" THEN [@[i] EXCEPT !.stale = TRUE]
                              ELSE @[i]]]

\* analytics.getTodayStats() !== null
\* a plausible slip: the day is never found played
hasPlayedTodayNever(data, today) == FALSE

hasPlayedToday(data, today) == \E h \in data.history : h.date = today

\* analytics.isConsecutiveDay: the dates are one day apart
isConsecutiveDay(lastDate, currentDate) ==
    /\ lastDate # ""
    /\ \E day \in 1..(Len(DateOfDay) - 1) :
          DateOfDay[day] = lastDate /\ DateOfDay[day + 1] = currentDate

\* analytics.recordGameEnd, without the times
recordGameEnd(data, won, mistakes, today) ==
    LET streak == IF ~won THEN 0
                  ELSE IF isConsecutiveDay(data.lastPlayedDate, today)
                       THEN data.currentStreak + 1
                  ELSE IF data.lastPlayedDate # today THEN 1
                  ELSE data.currentStreak
    IN  [gamesPlayed    |-> data.gamesPlayed + 1,
         gamesWon       |-> data.gamesWon + (IF won THEN 1 ELSE 0),
         currentStreak  |-> streak,
         maxStreak      |-> IF won /\ streak > data.maxStreak THEN streak ELSE data.maxStreak,
         lastPlayedDate |-> today,
         history        |-> {h \in data.history : h.date # today}
                              \cup {[date |-> today, won |-> won, mistakes |-> mistakes]},
         totalMistakes  |-> data.totalMistakes + mistakes,
         perfectGames   |-> data.perfectGames + (IF won /\ mistakes = 0 THEN 1 ELSE 0)]

\* removeMatchedWords, with the loadPuzzle that redraws the grid
removeMatchedWords(g, ws) ==
    [g EXCEPT !.puzzle.words = @ \ ws, !.grid = g.puzzle.words \ ws]

\* revealRemainingGroups: the words of every group not guessed leave the grid
RECURSIVE RevealFrom(_, _)
RevealFrom(g, i) ==
    IF i > Len(g.puzzle.groups) THEN g
    ELSE RevealFrom(IF g.puzzle.groups[i].guessed THEN g
                    ELSE removeMatchedWords(g, g.puzzle.groups[i].words), i + 1)

revealRemainingGroups(g) == RevealFrom(g, 1)

\* finishEndGame: the victory modal at once, or the failure modal and the
\* solutions after 500 ms
finishEndGame(g, won) ==
    IF won THEN g ELSE Later(g, Callback("revealSolutions", "", FALSE, "none"))

\* updateGlobalStats and saveUserGameResult: one write each to Firestore
SendResult(g) == [g EXCEPT !.calls.sent[g.today] = @ + 1]

\* endGame(won); origin and stale say which game called it
endGame(g, won, origin, stale) ==
    LET alreadyPlayedToday == hasPlayedToday(g.data, Today(g))
        g1 == [g EXCEPT !.gameActive = FALSE,
                        !.calls.endGameCalls = IF stale THEN @ ELSE @ + 1,
                        !.calls.lastEnd = [origin |-> origin,
                                           practice |-> g.isPracticeMode,
                                           counted |-> ~g.isPracticeMode
                                                       /\ ~alreadyPlayedToday]]
    IN  IF g.isPracticeMode THEN finishEndGame(g1, won)
        ELSE IF ~alreadyPlayedToday
        THEN LET g2 == [g1 EXCEPT
                           !.data = recordGameEnd(g.data, won, g.mistakesCount, Today(g)),
                           !.calls.recorded[g.today] = @ + 1]
             IN  IF ~g.nickname
                 THEN Later(g2, Callback("showNicknamePrompt", "", won, origin))
                 ELSE finishEndGame(SendResult(g2), won)
        ELSE finishEndGame(g1, won)

\* markMistake: dots[mistakesCount] is undefined once every dot is red, and
\* dot.classList throws before the count moves
markMistake(g) ==
    LET at == [g EXCEPT !.calls.markMistakeAt = g.mistakesCount]
    IN  IF g.mistakesCount >= TotalDots THEN at
        ELSE LET g1 == [at EXCEPT !.mistakesCount = @ + 1]
             IN  IF g1.mistakesCount = TotalDots
                 THEN endGame(g1, FALSE, g.puzzle.source, FALSE)
                 ELSE g1

\* the groups all of whose words are selected
MatchedGroups(g) ==
    {i \in 1..Len(g.puzzle.groups) :
        g.puzzle.groups[i].words \subseteq {g.selectedItems[k] : k \in 1..Len(g.selectedItems)}}

checkGroup(g) ==
    LET guessKey == GuessKey(g.selectedItems)
        matched == MatchedGroups(g)
    IN  IF guessKey \in g.previousGuesses THEN [g EXCEPT !.selectedItems = <<>>]
        ELSE IF matched # {}
        THEN LET i == CHOOSE j \in matched : \A k \in matched : j <= k
                 g1 == removeMatchedWords([g EXCEPT !.puzzle.groups[i].guessed = TRUE],
                                          g.puzzle.groups[i].words)
                 allGuessed == \A j \in 1..Len(g1.puzzle.groups) : g1.puzzle.groups[j].guessed
                 g2 == IF allGuessed
                       THEN Later(g1, Callback("endGame", "", TRUE, g.puzzle.source))
                       ELSE g1
             IN  [g2 EXCEPT !.selectedItems = <<>>]
        ELSE markMistake([g EXCEPT !.previousGuesses = @ \cup {guessKey},
                                   !.selectedItems = <<>>])

\* toggleSelection: the click on the tile of a word
toggleSelection(g, word) ==
    LET selected ==
            IF Includes(g.selectedItems, word)
            THEN Filter(g.selectedItems, LAMBDA w : w # word)
            ELSE IF Len(g.selectedItems) < SelectionSize
            THEN Append(g.selectedItems, word)
            ELSE g.selectedItems
        g1 == [g EXCEPT !.selectedItems = selected]
    IN  IF Len(selected) = SelectionSize THEN checkGroup(g1) ELSE g1

resetGameState(g) ==
    [g EXCEPT !.selectedItems = <<>>, !.mistakesCount = 0, !.gameActive = FALSE,
              !.previousGuesses = {}, !.grid = {}]

\* loadTodaysPuzzle up to its first await
loadTodaysPuzzle(g) ==
    Later([g EXCEPT !.currentPuzzleDate = Today(g), !.isPracticeMode = FALSE],
          Callback("loadTodaysPuzzle", Today(g), FALSE, "none"))

\* loadTodaysPuzzle after the awaits, with the archive that loads behind it
TodaysPuzzleLoaded(g, date) ==
    [NewGame(g) EXCEPT !.puzzle = ServedPuzzle(date, "daily"),
                       !.gameActive = TRUE,
                       !.grid = ServedPuzzle(date, "daily").words,
                       !.allPuzzles = ArchiveDates(g.today)]

returnToDailyPuzzle(g) == loadTodaysPuzzle(resetGameState(g))

\* loadArchivedPuzzle for a puzzle of the archive list
loadArchivedPuzzle(g, dateString) ==
    IF dateString = Today(g) THEN returnToDailyPuzzle(g)
    ELSE [NewGame(resetGameState([g EXCEPT !.isPracticeMode = TRUE,
                                           !.currentPuzzleDate = dateString]))
            EXCEPT !.puzzle = ServedPuzzle(dateString, "archive"),
                   !.gameActive = TRUE,
                   !.grid = ServedPuzzle(dateString, "archive").words]

\* the callback at position i has run
Without(g, i) ==
    [g EXCEPT !.pending = SubSeq(@, 1, i - 1) \o SubSeq(@, i + 1, Len(@))]

\* none of the other variables moves in a step of the page
pageFrame == <<inputs, validatorResults, uniquenessValidation, stats, generator>>

\* a step of the page leaves the page in g, if no more than MaxPending
\* callbacks are waiting then and no more than MaxGuesses guesses remembered
Becomes(g) ==
    /\ Len(g.pending) <= MaxPending
    /\ Cardinality(g.previousGuesses) <= MaxGuesses
    /\ game' = g
    /\ UNCHANGED pageFrame

\* the page is open, and no timer is overdue
Open ==
    /\ game.today >= FirstDay
    /\ \A i \in 1..Len(game.pending) :
          IsTimer(game.pending[i]) => game.pending[i].age < MaxEventsBeforeTimer

\* the page as a handler finds it: lastEnd and markMistakeAt tell of the
\* calls of one step
Page == [game EXCEPT !.calls.lastEnd = NoCalls.lastEnd,
                     !.calls.markMistakeAt = NoCalls.markMistakeAt]

\* the page as the handler of a click finds it: the timers have waited for
\* one click more
Clicked ==
    [Page EXCEPT !.pending = [i \in 1..Len(@) |->
                                 IF IsTimer(@[i]) THEN [@[i] EXCEPT !.age = @ + 1]
                                 ELSE @[i]]]

InitGame ==
    /\ newPuzzle = NoPuzzle
    /\ existingPuzzles = <<>>
    /\ call = NoCall
    /\ NoResults
    /\ flags = [preview |-> FALSE, force |-> FALSE, stats |-> FALSE, strict |-> FALSE,
                retry |-> 1]
    /\ firestore = FALSE
    /\ datesToGenerate = <<>>
    /\ dateIndex = 1
    /\ attempts = 0
    /\ success = FALSE
    /\ failedDates = <<>>
    /\ saved = <<>>
    /\ pc = "idle"
    /\ exitCode = 0
    /\ game = loadTodaysPuzzle([NoGame EXCEPT !.today = FirstDay])

\* a tile of the grid is clicked
ClickTile == Open /\ \E word \in game.grid : Becomes(toggleSelection(Clicked, word))

\* a puzzle of the archive list is clicked
ClickArchive ==
    Open /\ \E dateString \in game.allPuzzles : Becomes(loadArchivedPuzzle(Clicked, dateString))

\* the button of the archive banner is clicked
ClickReturnToDaily == Open /\ Becomes(returnToDailyPuzzle(Clicked))

\* the awaits of a loadTodaysPuzzle call are over
RunLoadTodaysPuzzle ==
    \E i \in 1..Len(game.pending) :
        /\ game.pending[i].fn = "loadTodaysPuzzle"
        /\ Becomes(TodaysPuzzleLoaded(Without(Page, i), game.pending[i].date))

\* the timer set by the last right guess runs endGame(true)
RunEndGame ==
    \E i \in 1..Len(game.pending) :
        /\ game.pending[i].fn = "endGame"
        /\ Becomes(endGame(Without(Page, i), TRUE, game.pending[i].origin,
                           game.pending[i].stale))

\* the timer set by finishEndGame shows the failure modal and the solutions
RunRevealSolutions ==
    \E i \in 1..Len(game.pending) :
        /\ game.pending[i].fn = "revealSolutions"
        /\ Becomes(revealRemainingGroups(Without(Page, i)))

\* the nickname prompt is answered: the nickname is set, the result is sent,
\* and finishEndGame runs
AnswerNicknamePrompt ==
    \E i \in 1..Len(game.pending) :
        /\ game.pending[i].fn = "showNicknamePrompt"
        /\ Becomes(finishEndGame(SendResult([Without(Page, i) EXCEPT !.nickname = TRUE]),
                                 game.pending[i].won))

NextGame ==
    \/ ClickTile
    \/ ClickArchive
    \/ ClickReturnToDaily
    \/ RunLoadTodaysPuzzle
    \/ RunEndGame
    \/ RunRevealSolutions
    \/ AnswerNicknamePrompt

SpecGame == InitGame /\ [][NextGame]_vars

----------------------------------------------------------------------------
(* Vocabulary of the claims about the generator *)

\* the entries of the log of savePuzzle calls
SavedEntries == {saved[i] : i \in 1..Len(saved)}

\* the outcome of validatePuzzleUniqueness for a logged call, against the
\* corpus as it was when savePuzzle was called
UniqueWhenSaved(entry) ==
    validatePuzzleUniqueness(entry.puzzle, entry.puzzles,
                             [allowWordReuse |-> ~flags.strict, verbose |-> TRUE]).valid

\* this step is an attempt of main that generated a puzzle
AttemptWithPuzzle == attempts' = attempts + 1 /\ newPuzzle' # NoPuzzle

\* this step passes the generated puzzle to savePuzzle
PassedToSavePuzzle ==
    /\ Len(saved') = Len(saved) + 1
    /\ saved'[Len(saved')].puzzle = newPuzzle'

\* C19: in a run without --force, savePuzzle is called for a generated puzzle
\* only if validatePuzzle found it valid and validatePuzzleUniqueness returned
\* valid = true for it against the corpus of that moment
C19_SaveOnlyIfValidated ==
    ~flags.force =>
        \A entry \in SavedEntries :
            validatePuzzle(entry.puzzle).valid /\ UniqueWhenSaved(entry)

\* a run without --force saved a puzzle against a corpus that is not empty,
\* at the second attempt for its date
C19_Witness ==
    /\ ~flags.force
    /\ \E entry \in SavedEntries : entry.puzzles # <<>> /\ entry.attempt = 2

LeavesDate == dateIndex' = dateIndex + 1

\* this step is an attempt of main
Attempt == attempts' = attempts + 1

\* C21: with --preview savePuzzle is never called and no step changes
\* data.puzzles, whatever the other flags and whatever the validations say
C21_PreviewSavesNothing ==
    /\ [](flags.preview => saved = <<>>)
    /\ [][flags.preview => existingPuzzles' = existingPuzzles]_vars

\* a run with --preview and --force has ended after showing a puzzle that
\* validatePuzzleUniqueness rejected against a corpus that is not empty
C21_Witness ==
    /\ flags.preview
    /\ flags.force
    /\ ~flags.stats
    /\ pc = "done"
    /\ newPuzzle # NoPuzzle
    /\ existingPuzzles # <<>>
    /\ ~uniquenessValidation.valid

CurrentDate == datesToGenerate[dateIndex]

\* the dates of the puzzles of a corpus
DatesIn(puzzles) == {puzzles[i].date : i \in 1..Len(puzzles)}

C28_NoOverwriteWithoutForce ==
    ~flags.force =>
        /\ \A entry \in SavedEntries : entry.puzzle.date \notin DatesIn(entry.puzzles)
        /\ \A i, j \in 1..Len(saved) :
              i < j => \E k \in 1..Len(saved[j].puzzles) :
                          saved[j].puzzles[k] = saved[i].puzzle

\* without --force two dates were saved, the second at its second attempt
\* and into the corpus that holds the first
C28_Witness ==
    /\ ~flags.force
    /\ Len(saved) = 2
    /\ saved[2].attempt = 2
    /\ saved[2].puzzles = <<saved[1].puzzle>>
    /\ saved[1].puzzle.date # saved[2].puzzle.date

----------------------------------------------------------------------------
(* Vocabulary of the claims about the game *)

\* the days of the calendar
Days == 1..Len(DateOfDay)

\* the step ran endGame
EndGameRan == game.calls.lastEnd.origin # "none"

\* C24: only the first attempt of a day counts. For every day, recordGameEnd
\* is performed at most once and the result is sent (updateGlobalStats and
\* saveUserGameResult) at most once; and once the day is in the history, no
\* step changes the local statistics.
C24_FirstAttemptOnly ==
    /\ [](\A day \in Days : game.calls.recorded[day] <= 1 /\ game.calls.sent[day] <= 1)
    /\ [][hasPlayedToday(game.data, Today(game)) => game'.data = game.data]_vars

\* a replay of the puzzle of the day ends after the first game of the day was
\* recorded and sent
C24_Witness ==
    /\ game.calls.lastEnd = [origin |-> "daily", practice |-> FALSE, counted |-> FALSE]
    /\ game.calls.recorded[game.today] = 1
    /\ game.calls.sent[game.today] = 1
    /\ game.data.gamesPlayed = 1

\* C25: practice games never count. Whenever endGame runs, a game end that
\* comes from an archived puzzle is handled as practice and nothing of it is
\* recorded or sent, and a game end that comes from the puzzle of the day is
\* not handled as practice, whatever ran between the last right guess and the
\* timer it set.
C25_PracticeNeverCounts ==
    EndGameRan =>
        /\ game.calls.lastEnd.origin = "archive" =>
              game.calls.lastEnd.practice /\ ~game.calls.lastEnd.counted
        /\ game.calls.lastEnd.origin = "daily" => ~game.calls.lastEnd.practice

\* the step is the click that selects word as the fourth word: checkGroup runs
SubmitsGuess(word) ==
    /\ Open
    /\ Len(game.selectedItems) = SelectionSize - 1
    /\ word \in game.grid
    /\ ~Includes(game.selectedItems, word)
    /\ game' = toggleSelection(Clicked, word)

\* the four words submitted
GuessOf(word) == {game.selectedItems[k] : k \in 1..Len(game.selectedItems)} \cup {word}

\* the session remembers the four words as a wrong guess, in some order
AlreadyRejected(word) ==
    \E key \in game.previousGuesses : {key[k] : k \in 1..Len(key)} = GuessOf(word)

\* the four words hold every word of a group
RightGuess(word) ==
    \E i \in 1..Len(game.puzzle.groups) : game.puzzle.groups[i].words \subseteq GuessOf(word)

\* C26: a repeated wrong guess is not penalised. A guess whose four words the
\* session already rejected, in whatever order they are selected, leaves
\* mistakesCount as it is, and so does a right guess; a wrong guess made for
\* the first time adds exactly 1.
C26_RepeatedGuessNotPenalised ==
    [][\A word \in DOMAIN TileRank :
          SubmitsGuess(word) =>
              game'.mistakesCount =
                  game.mistakesCount
                      + (IF AlreadyRejected(word) \/ RightGuess(word) THEN 0 ELSE 1)]_vars

\* the same with the first-time wrong guess counted only while a dot is left:
\* once every dot is red, markMistake throws and the count stays
C26_RepeatedGuessNotPenalisedWhileDotsLeft ==
    [][\A word \in DOMAIN TileRank :
          SubmitsGuess(word) =>
              game'.mistakesCount =
                  game.mistakesCount
                      + (IF AlreadyRejected(word) \/ RightGuess(word)
                            \/ game.mistakesCount >= TotalDots
                         THEN 0 ELSE 1)]_vars

\* C27: once the game is lost no selection is evaluated as a guess. markMistake
\* never runs with mistakesCount = totalDots, mistakesCount never exceeds
\* totalDots, and endGame is called at most once per game.
C27_NoGuessAfterLoss ==
    /\ game.calls.markMistakeAt < TotalDots
    /\ game.mistakesCount <= TotalDots
    /\ game.calls.endGameCalls <= 1

====
